---- MODULE Spec2Model ----
(***************************************************************************)
(* The pointer-interaction ripple controller (useRipple): the four-phase   *)
(* interaction state machine, the touch-hold delay timer, the grow         *)
(* animation handle and the minimum-press wait.                            *)
(*                                                                         *)
(* Time is a discrete clock shared by the animation timeline and the       *)
(* setTimeout timers.  A handler runs to its first await in one step; the  *)
(* code after an await is a separate step taken when its timer is due.     *)
(* The clock does not pass a due timer; timers due together resume in any  *)
(* order, and events may be handled between them.                          *)
(***************************************************************************)
EXTENDS Integers, FiniteSets, Sequences, Bags, TLC

(* ------------------------------ constants ------------------------------ *)

PRESS_GROW_MS == 450
MINIMUM_PRESS_MS == 225
TOUCH_DELAY_MS == 150

INACTIVE == 0
TOUCH_DELAY == 1
HOLDING == 2
WAITING_FOR_CLICK == 3

\* let pressAnimationPlayState = Infinity: larger than every time of the model
Infinity == 1000000

(* ------------------------------- bounds -------------------------------- *)

\* timers pending at once: endPressAnimation and onPointerDown calls that are
\* suspended at their await
MaxTimers == 2

(* ------------------------------- events -------------------------------- *)

PointerIds == {1, 2}
PointerTypes == {"mouse", "touch"}
\* event.buttons: 0 = no button held, 1 = primary button held
ButtonMasks == {0, 1}

\* the payloads a handler is called with: a touch contact reports no mouse
\* button, every other pointer reports the primary button held or not
PointerEvents(type) ==
    {e \in [type : {type}, pointerId : PointerIds, pointerType : PointerTypes,
            isPrimary : BOOLEAN, buttons : ButtonMasks] :
        e.pointerType = "touch" => e.buttons = 0}

\* null / undefined where an event is expected
NoEvent ==
    [type |-> "none", pointerId |-> 0, pointerType |-> "none",
     isPrimary |-> FALSE, buttons |-> 0]

\* null where an Animation is expected
NoAnim == 0

RECURSIVE Gcd(_, _)
Gcd(a, b) == IF b = 0 THEN a ELSE Gcd(b, a % b)

\* the clock advances in steps that divide both timer lengths
TickMs == Gcd(MINIMUM_PRESS_MS, TOUCH_DELAY_MS)

Min(a, b) == IF a < b THEN a ELSE b

(* -------------------------------- state -------------------------------- *)

VARIABLES
    disabled,     \* the hook's argument, as of the last render
    surface,      \* surfaceRef.current is an element
    hovered,      \* useState
    pressed,      \* useState
    phase,        \* stateRef.current
    origin,       \* rippleStartEventRef.current
    handle,       \* growAnimationRef.current
    anims,        \* the animations created and not cancelled: id -> record
    waits,        \* endPressAnimation calls suspended at line 142
    delays        \* onPointerDown calls suspended at line 169; tapped records
                  \* that the pointerup of that press came during its delay

rippleVars == <<disabled, surface, hovered, pressed, phase, origin, handle,
                anims, waits, delays>>

\* the Dialog component (components/Dialog/Dialog.tsx)
VARIABLES
    open,             \* the open prop, as of the last render
    quick,            \* the quick prop: animations are skipped
    dialogOpen,       \* dialogRef.current.open, the native dialog is shown
    isOpen,           \* useState
    isAnimating,      \* useState
    returnValueState, \* useState
    openers,          \* showDialog calls suspended at line 391
    closers           \* closeDialog calls suspended at line 407, oldest first:
                      \* the value each of them closes with

dialogVars == <<open, quick, dialogOpen, isOpen, isAnimating, returnValueState,
                openers, closers>>

\* the ThemeProvider component
VARIABLES
    mode,             \* useState
    colorScheme,      \* useState
    systemPreference, \* useState
    persist,          \* the persist prop
    storage,          \* localStorage: the items under modeKey and schemeKey
    dataTheme,        \* the data-theme attribute of the document root
    dataScheme        \* the data-scheme attribute of the document root

themeVars == <<mode, colorScheme, systemPreference, persist, storage, dataTheme,
               dataScheme>>

\* the Button component with the ripple list (components/Button/Button.tsx)
VARIABLES
    ripples,          \* useState of the ripple-list hook
    buttonDisabled,   \* the disabled prop, as of the last render
    onPointerDown     \* the onPointerDown prop is a function

buttonVars == <<ripples, buttonDisabled, onPointerDown>>

\* the geometry of the press animation (determineRippleSize and
\* getTranslationCoordinates of the ripple controller)
VARIABLES
    rect,             \* surface.getBoundingClientRect(), in px
    initialSizeRef,   \* initialSizeRef.current
    rippleSizeRef,    \* rippleSizeRef.current
    rippleScaleRef,   \* rippleScaleRef.current
    transform         \* the transform keyframes of the last surface.animate

geometryVars == <<rect, initialSizeRef, rippleSizeRef, rippleScaleRef, transform>>

vars == <<rippleVars, dialogVars, themeVars, buttonVars, geometryVars>>

\* the controller's fields as one record, so that handlers compose
Cur ==
    [disabled |-> disabled, surface |-> surface, hovered |-> hovered,
     pressed |-> pressed, phase |-> phase, origin |-> origin, handle |-> handle,
     anims |-> anims, waits |-> waits, delays |-> delays, started |-> 0]

(* ------------------------------- helpers ------------------------------- *)

\* faulty variant: every pointer is taken for a touch
IsTouch_Always(event) == TRUE

IsTouch(event) == event.pointerType = "touch"

\* faulty variant: the pointer that owns the session is not checked
ShouldReactToEvent_AnyPointer(dis, org, event) ==
    IF dis \/ ~event.isPrimary THEN FALSE
    ELSE IF event.type \in {"pointerenter", "pointerleave"} THEN ~IsTouch(event)
    ELSE IsTouch(event) \/ event.buttons = 1

\* faulty variant: the disabled flag is not checked
ShouldReactToEvent_IgnoreDisabled(dis, org, event) ==
    IF ~event.isPrimary THEN FALSE
    ELSE IF org # NoEvent /\ org.pointerId # event.pointerId THEN FALSE
    ELSE IF event.type \in {"pointerenter", "pointerleave"} THEN ~IsTouch(event)
    ELSE IsTouch(event) \/ event.buttons = 1

\* faulty variant: hover events are admitted for touch pointers too
ShouldReactToEvent_TouchHover(dis, org, event) ==
    IF dis \/ ~event.isPrimary THEN FALSE
    ELSE IF org # NoEvent /\ org.pointerId # event.pointerId THEN FALSE
    ELSE IF event.type \in {"pointerenter", "pointerleave"} THEN TRUE
    ELSE IsTouch(event) \/ event.buttons = 1

\* faulty variant: the buttons of a press event are not looked at
ShouldReactToEvent_AnyButton(dis, org, event) ==
    IF dis \/ ~event.isPrimary THEN FALSE
    ELSE IF org # NoEvent /\ org.pointerId # event.pointerId THEN FALSE
    ELSE IF event.type \in {"pointerenter", "pointerleave"} THEN ~IsTouch(event)
    ELSE TRUE

ShouldReactToEvent(dis, org, event) ==
    IF dis \/ ~event.isPrimary THEN FALSE
    ELSE IF org # NoEvent /\ org.pointerId # event.pointerId THEN FALSE
    ELSE IF event.type \in {"pointerenter", "pointerleave"} THEN ~IsTouch(event)
    ELSE IsTouch(event) \/ event.buttons = 1

\* faulty variant: the animation in the handle is not cancelled
CancelAnimation_Skip(an, h) == an

\* growAnimationRef.current?.cancel()
CancelAnimation(an, h) == [i \in DOMAIN an \ {h} |-> an[i]]

\* the identity of a newly created Animation object: distinct from every
\* animation that is still playing or still referenced
NewAnimation(an, h, ws) ==
    LET used == DOMAIN an \cup {h} \cup {w.anim : w \in BagToSet(ws)}
    IN  CHOOSE i \in 1..(Cardinality(used) + 1) :
            i \notin used /\ \A j \in 1..(i - 1) : j \in used

\* typeof animation?.currentTime === 'number' ? animation.currentTime : Infinity
PlayState(an, h) == IF h \in DOMAIN an THEN an[h].time ELSE Infinity

\* faulty variant: the release never waits
PressedLongEnough_Always(t) == t >= 0

PressedLongEnough(t) == t >= MINIMUM_PRESS_MS

\* faulty variant: the wait does not count the time already played
RemainingPress_Full(t) == MINIMUM_PRESS_MS

RemainingPress(t) == MINIMUM_PRESS_MS - t

\* faulty variant: the resumed release does not compare the animation handle
IsSameAnimation_Any(h, a) == TRUE

\* growAnimationRef.current !== animation is false
IsSameAnimation(h, a) == h = a

\* faulty variant: the resumed pointerdown does not check the phase
DelayStillPending_Always(ph) == TRUE

\* stateRef.current !== State.TOUCH_DELAY is false
DelayStillPending(ph) == ph = TOUCH_DELAY

\* faulty variant: the surface element is not looked at
StartPressAnimation_AnySurface(s, event) ==
    LET id == NewAnimation(s.anims, s.handle, s.waits)
    IN  [s EXCEPT !.pressed = TRUE,
                  !.anims = (id :> [origin |-> event, time |-> 0])
                            @@ CancelAnimation(s.anims, s.handle),
                  !.handle = id,
                  !.started = @ + 1]

StartPressAnimation(s, event) ==
    IF ~s.surface THEN s
    ELSE LET id == NewAnimation(s.anims, s.handle, s.waits)
         IN  [s EXCEPT !.pressed = TRUE,
                       !.anims = (id :> [origin |-> event, time |-> 0])
                                 @@ CancelAnimation(s.anims, s.handle),
                       !.handle = id,
                       !.started = @ + 1]

\* faulty variant: a release that waits tears the session down after the wait
EndPressAnimation_LateTeardown(s) ==
    LET animation == s.handle
        t == PlayState(s.anims, animation)
    IN  IF PressedLongEnough(t)
        THEN [s EXCEPT !.origin = NoEvent, !.phase = INACTIVE, !.pressed = FALSE]
        ELSE [s EXCEPT !.waits = @ (+) SetToBag({[anim |-> animation,
                                                   remaining |-> RemainingPress(t)]})]

\* faulty variant: the release leaves the origin event in place
EndPressAnimation_KeepOrigin(s) ==
    LET animation == s.handle
        t == PlayState(s.anims, animation)
        s1 == [s EXCEPT !.phase = INACTIVE]
    IN  IF PressedLongEnough(t)
        THEN [s1 EXCEPT !.pressed = FALSE]
        ELSE [s1 EXCEPT !.waits = @ (+) SetToBag({[anim |-> animation,
                                                    remaining |-> RemainingPress(t)]})]

\* endPressAnimation up to its await (or to its early return)
EndPressAnimation(s) ==
    LET animation == s.handle
        t == PlayState(s.anims, animation)
        s1 == [s EXCEPT !.origin = NoEvent, !.phase = INACTIVE]
    IN  IF PressedLongEnough(t)
        THEN [s1 EXCEPT !.pressed = FALSE]
        ELSE [s1 EXCEPT !.waits = @ (+) SetToBag({[anim |-> animation,
                                                    remaining |-> RemainingPress(t)]})]

\* endPressAnimation after its await
ResumeEndPress(s, w) ==
    IF ~IsSameAnimation(s.handle, w.anim) THEN s
    ELSE [s EXCEPT !.pressed = FALSE]

\* onPointerDown after its await
ResumeTouchDelay(s, d) ==
    IF ~DelayStillPending(s.phase) THEN s
    ELSE StartPressAnimation([s EXCEPT !.phase = HOLDING], d.event)

PointerEnterState(s, event) ==
    IF ~ShouldReactToEvent(s.disabled, s.origin, event) THEN s
    ELSE [s EXCEPT !.hovered = TRUE]

\* faulty variant: leaving only ends the hover
PointerLeaveState_HoverOnly(s, event) ==
    IF ~ShouldReactToEvent(s.disabled, s.origin, event) THEN s
    ELSE [s EXCEPT !.hovered = FALSE]

PointerLeaveState(s, event) ==
    IF ~ShouldReactToEvent(s.disabled, s.origin, event) THEN s
    ELSE LET s1 == [s EXCEPT !.hovered = FALSE]
         IN  IF s1.phase # INACTIVE THEN EndPressAnimation(s1) ELSE s1

\* rippleStartEventRef.current || undefined
PointerUpOrigin(org, event) == org

\* the timers of the press that is in TOUCH_DELAY (the pointerdown handled
\* last: no pending timer has more time left) are marked as tapped
MarkTapped(ds) ==
    LET olds == BagToSet(ds)
        latest(d) == \A o \in olds : o.remaining <= d.remaining
        mark(d) == IF latest(d) THEN [d EXCEPT !.tapped = TRUE] ELSE d
        news == {mark(d) : d \in olds}
        Sum(f, S) == LET RECURSIVE Acc(_)
                         Acc(T) == IF T = {} THEN 0
                                   ELSE LET x == CHOOSE y \in T : TRUE
                                        IN  f[x] + Acc(T \ {x})
                     IN  Acc(S)
    IN  [n \in news |-> Sum([d \in olds |-> CopiesIn(d, ds)], {d \in olds : mark(d) = n})]

\* faulty variant: a pointerup in HOLDING starts the animation again
PointerUpState_RestartInHolding(s, event) ==
    IF ~ShouldReactToEvent(s.disabled, s.origin, event) THEN s
    ELSE IF s.phase \in {HOLDING, TOUCH_DELAY}
         THEN StartPressAnimation([s EXCEPT !.phase = WAITING_FOR_CLICK,
                                            !.delays = MarkTapped(@)],
                                  PointerUpOrigin(s.origin, event))
    ELSE s

PointerUpState(s, event) ==
    IF ~ShouldReactToEvent(s.disabled, s.origin, event) THEN s
    ELSE IF s.phase = HOLDING THEN [s EXCEPT !.phase = WAITING_FOR_CLICK]
    ELSE IF s.phase = TOUCH_DELAY
         THEN StartPressAnimation([s EXCEPT !.phase = WAITING_FOR_CLICK,
                                            !.delays = MarkTapped(@)],
                                  PointerUpOrigin(s.origin, event))
    ELSE s

\* onPointerDown up to its await (or to its early return)
PointerDownState(s, event) ==
    IF ~ShouldReactToEvent(s.disabled, s.origin, event) THEN s
    ELSE LET s1 == [s EXCEPT !.origin = event]
         IN  IF ~IsTouch(event)
             THEN StartPressAnimation([s1 EXCEPT !.phase = WAITING_FOR_CLICK], event)
             ELSE [s1 EXCEPT !.phase = TOUCH_DELAY,
                             !.delays = @ (+) SetToBag({[event |-> event,
                                                         remaining |-> TOUCH_DELAY_MS,
                                                         tapped |-> FALSE]})]

PointerCancelState(s, event) ==
    IF ~ShouldReactToEvent(s.disabled, s.origin, event) THEN s
    ELSE EndPressAnimation(s)

\* faulty variant: the synthetic press is never released
ClickInactive_NoRelease(s) == StartPressAnimation(s, NoEvent)

\* startPressAnimation(); endPressAnimation();
ClickInactive(s) == EndPressAnimation(StartPressAnimation(s, NoEvent))

\* faulty variant: a click in WAITING_FOR_CLICK does not release
ClickState_NoRelease(s) ==
    IF s.disabled THEN s
    ELSE IF s.phase = INACTIVE THEN ClickInactive(s)
    ELSE s

ClickState(s) ==
    IF s.disabled THEN s
    ELSE IF s.phase = WAITING_FOR_CLICK THEN EndPressAnimation(s)
    ELSE IF s.phase = INACTIVE THEN ClickInactive(s)
    ELSE s

\* the handlers bundle: the handler an event of each type is delivered to
HandlerState(s, event) ==
    CASE event.type = "pointerenter" -> PointerEnterState(s, event)
      [] event.type = "pointerleave" -> PointerLeaveState(s, event)
      [] event.type = "pointerdown" -> PointerDownState(s, event)
      [] event.type = "pointerup" -> PointerUpState(s, event)
      [] event.type = "pointercancel" -> PointerCancelState(s, event)

\* the bag of timers after TickMs have passed
Elapse(timers) ==
    LET later(t) == [t EXCEPT !.remaining = @ - TickMs]
        olds == BagToSet(timers)
        news == {later(t) : t \in olds}
    IN  [n \in news |-> CopiesIn(CHOOSE t \in olds : later(t) = n, timers)]

\* the controller after TickMs have passed
TickState(s) ==
    [s EXCEPT !.waits = Elapse(@),
              !.delays = Elapse(@),
              !.anims = [i \in DOMAIN @ |->
                           [@[i] EXCEPT !.time = Min(@ + TickMs, PRESS_GROW_MS)]]]

(* ------------------------------- actions ------------------------------- *)

\* the state after a handler or continuation, within the model's bounds
Commit(s) ==
    /\ BagCardinality(s.waits) + BagCardinality(s.delays) <= MaxTimers
    /\ hovered' = s.hovered
    /\ pressed' = s.pressed
    /\ phase' = s.phase
    /\ origin' = s.origin
    /\ handle' = s.handle
    /\ anims' = s.anims
    /\ waits' = s.waits
    /\ delays' = s.delays
    /\ UNCHANGED <<disabled, surface>>
    /\ UNCHANGED <<dialogVars, themeVars, buttonVars, geometryVars>>

\* the state of the hook after its first render
RippleMounted(dis) ==
    /\ disabled = dis
    /\ surface = TRUE
    /\ hovered = FALSE
    /\ pressed = FALSE
    /\ phase = INACTIVE
    /\ origin = NoEvent
    /\ handle = NoAnim
    /\ anims = <<>>
    /\ waits = EmptyBag
    /\ delays = EmptyBag

OnPointerEnter ==
    \E e \in PointerEvents("pointerenter") : Commit(PointerEnterState(Cur, e))

OnPointerLeave ==
    \E e \in PointerEvents("pointerleave") : Commit(PointerLeaveState(Cur, e))

OnPointerDown ==
    \E e \in PointerEvents("pointerdown") : Commit(PointerDownState(Cur, e))

OnPointerUp ==
    \E e \in PointerEvents("pointerup") : Commit(PointerUpState(Cur, e))

OnPointerCancel ==
    \E e \in PointerEvents("pointercancel") : Commit(PointerCancelState(Cur, e))

OnClick == Commit(ClickState(Cur))

\* the touch-delay timer of a pointerdown is due: onPointerDown resumes
DelayElapsed ==
    \E d \in BagToSet(delays) :
        /\ d.remaining = 0
        /\ Commit(ResumeTouchDelay([Cur EXCEPT !.delays = @ (-) SetToBag({d})], d))

\* the minimum-press timer of a release is due: endPressAnimation resumes
WaitElapsed ==
    \E w \in BagToSet(waits) :
        /\ w.remaining = 0
        /\ Commit(ResumeEndPress([Cur EXCEPT !.waits = @ (-) SetToBag({w})], w))

\* TickMs pass: no timer is overdue, animations play on up to their duration
Tick ==
    /\ \A w \in BagToSet(waits) : w.remaining >= TickMs
    /\ \A d \in BagToSet(delays) : d.remaining >= TickMs
    /\ Commit(TickState(Cur))

\* the component renders again and calls the hook with the disabled flag of
\* this render; what is suspended at an await stays suspended
RippleRender ==
    \E dis \in BOOLEAN :
        /\ disabled' = dis
        /\ UNCHANGED <<surface, hovered, pressed, phase, origin, handle, anims,
                       waits, delays>>
        /\ UNCHANGED <<dialogVars, themeVars, buttonVars, geometryVars>>

Next ==
    \/ OnPointerEnter
    \/ OnPointerLeave
    \/ OnPointerDown
    \/ OnPointerUp
    \/ OnPointerCancel
    \/ OnClick
    \/ DelayElapsed
    \/ WaitElapsed
    \/ Tick

(* -------------------------------- Dialog ------------------------------- *)
(* The Dialog component.  A callback of the consumer is an input of the    *)
(* step that calls it: its result is chosen freely, and the calls a step   *)
(* makes are listed, in order, in the field called of the step's result:   *)
(* the callbacks of the consumer, and between them showModal and close of  *)
(* the native dialog and the start of the animations (animate).            *)
(* showDialog and closeDialog run to their await in one step; what follows *)
(* the await is a separate step, taken when the animations have finished   *)
(* (with quick there is nothing to wait for and the step is one).          *)

\* what onClose and onCancel may return: boolean | void
CallbackResults == {"false", "true", "undefined"}

\* undefined or null where a return value is expected
NoValue == "<undefined>"

ReturnValues == {"", "ok"}

\* event.target of a click that reaches the dialog element's handler
ClickTargets == {"dialog", "focusTrap"}

Keys == {"Escape", "Enter"}

\* the form rendered around the children
FormMethods == {"dialog"}

\* showDialog, and closeDialog, calls suspended at once
MaxPending == 3

DialogCur ==
    [open |-> open, quick |-> quick, dialogOpen |-> dialogOpen, isOpen |-> isOpen,
     isAnimating |-> isAnimating, returnValueState |-> returnValueState,
     openers |-> openers, closers |-> closers, called |-> <<>>]

Call(name, value) == [callback |-> name, value |-> value]

\* a ?? b
Coalesce(a, b) == IF a = NoValue THEN b ELSE a

\* faulty variant: no result of the callback stops the operation
IsFalse_Never(result) == FALSE

\* shouldClose === false, shouldCancel === false
IsFalse(result) == result = "false"

\* the part of showDialog after its await
OpenedState(s) == [s EXCEPT !.called = Append(@, Call("onOpened", NoValue))]

\* faulty variant: onOpened does not wait for the open animations
ShowDialog_OpenedAtOnce(s) ==
    IF s.dialogOpen THEN s
    ELSE LET shown == [s EXCEPT !.called = @ \o <<Call("onOpen", NoValue),
                                                  Call("showModal", NoValue)>>,
                                !.dialogOpen = TRUE,
                                !.isOpen = TRUE]
         IN  IF s.quick THEN OpenedState(shown)
             ELSE OpenedState([shown EXCEPT !.called = Append(@, Call("animate", NoValue)),
                                            !.isAnimating = TRUE,
                                            !.openers = @ + 1])

ShowDialog(s) ==
    IF s.dialogOpen THEN s
    ELSE LET shown == [s EXCEPT !.called = @ \o <<Call("onOpen", NoValue),
                                                  Call("showModal", NoValue)>>,
                                !.dialogOpen = TRUE,
                                !.isOpen = TRUE]
         IN  IF s.quick THEN OpenedState(shown)
             ELSE [shown EXCEPT !.called = Append(@, Call("animate", NoValue)),
                                !.isAnimating = TRUE,
                                !.openers = @ + 1]

\* the open animations of the oldest suspended showDialog have finished
ResumeShowDialog(s) ==
    OpenedState([s EXCEPT !.openers = @ - 1, !.isAnimating = FALSE])

\* the part of closeDialog after its await
ClosedState(s, value) ==
    [s EXCEPT !.dialogOpen = FALSE,
              !.isOpen = FALSE,
              !.called = @ \o <<Call("close", value), Call("onClosed", value)>>]

CloseDialog(s, newReturnValue, shouldClose) ==
    IF ~s.dialogOpen THEN s
    ELSE LET value == Coalesce(newReturnValue, s.returnValueState)
             asked == [s EXCEPT !.called = Append(@, Call("onClose", value))]
             stored == [asked EXCEPT !.returnValueState = value]
         IN  IF IsFalse(shouldClose) THEN asked
             ELSE IF s.quick THEN ClosedState(stored, value)
             ELSE [stored EXCEPT !.called = Append(@, Call("animate", NoValue)),
                                 !.isAnimating = TRUE,
                                 !.closers = Append(@, value)]

\* the close animations of the oldest suspended closeDialog have finished
ResumeCloseDialog(s) ==
    ClosedState([s EXCEPT !.closers = Tail(@), !.isAnimating = FALSE],
                Head(s.closers))

\* faulty variant: the result of onCancel is not looked at
HandleCancel_Unasked(s, shouldCancel, shouldClose) ==
    CloseDialog([s EXCEPT !.called = Append(@, Call("onCancel", NoValue))],
                s.returnValueState, shouldClose)

HandleCancel(s, shouldCancel, shouldClose) ==
    LET asked == [s EXCEPT !.called = Append(@, Call("onCancel", NoValue))]
    IN  IF IsFalse(shouldCancel) THEN asked
        ELSE CloseDialog(asked, s.returnValueState, shouldClose)

HandleDialogClick(s, target, shouldCancel, shouldClose) ==
    IF target = "dialog" THEN HandleCancel(s, shouldCancel, shouldClose) ELSE s

\* the document's keydown listener, registered while isOpen
HandleKeyDown(s, key, shouldCancel, shouldClose) ==
    IF key = "Escape" /\ s.isOpen THEN HandleCancel(s, shouldCancel, shouldClose)
    ELSE s

\* submitterValue: the value attribute of the submitting button, if any
HandleFormSubmit(s, method, submitterValue, shouldClose) ==
    IF method # "dialog" THEN s
    ELSE CloseDialog(s, Coalesce(submitterValue, s.returnValueState), shouldClose)

\* the effect that follows the open prop
SyncOpenProp(s, shouldClose) ==
    IF s.open /\ ~s.isOpen /\ ~s.isAnimating THEN ShowDialog(s)
    ELSE IF ~s.open /\ s.isOpen /\ ~s.isAnimating
         THEN CloseDialog(s, NoValue, shouldClose)
    ELSE s

\* the component renders again when its state has changed, and the effect
\* runs after a render in which one of its dependencies has changed:
\* closeDialog is one of them and depends on returnValueState
Rendered(before, after, shouldClose) ==
    IF \/ after.isOpen # before.isOpen
       \/ after.isAnimating # before.isAnimating
       \/ after.returnValueState # before.returnValueState
    THEN SyncOpenProp(after, shouldClose)
    ELSE after

\* the state after a handler or continuation, within the model's bounds
DialogCommit(s) ==
    /\ s.openers <= MaxPending
    /\ Len(s.closers) <= MaxPending
    /\ open' = s.open
    /\ dialogOpen' = s.dialogOpen
    /\ isOpen' = s.isOpen
    /\ isAnimating' = s.isAnimating
    /\ returnValueState' = s.returnValueState
    /\ openers' = s.openers
    /\ closers' = s.closers
    /\ UNCHANGED quick
    /\ UNCHANGED <<rippleVars, themeVars, buttonVars, geometryVars>>

\* the parent renders the dialog with an open prop and fresh callbacks
DialogRender ==
    \E openProp \in BOOLEAN, r \in CallbackResults :
        DialogCommit(SyncOpenProp([DialogCur EXCEPT !.open = openProp], r))

\* ref.show()
DialogShow ==
    \E r \in CallbackResults :
        DialogCommit(Rendered(DialogCur, ShowDialog(DialogCur), r))

\* ref.close(value)
DialogClose ==
    \E value \in ReturnValues \cup {NoValue}, r1 \in CallbackResults, r2 \in CallbackResults :
        DialogCommit(Rendered(DialogCur, CloseDialog(DialogCur, value, r1), r2))

\* a key is pressed anywhere in the document
DialogKeyDown ==
    \E key \in Keys, c \in CallbackResults, r1 \in CallbackResults, r2 \in CallbackResults :
        DialogCommit(Rendered(DialogCur, HandleKeyDown(DialogCur, key, c, r1), r2))

\* the cancel event of the native dialog, which it fires only while shown
DialogNativeCancel ==
    \E c \in CallbackResults, r1 \in CallbackResults, r2 \in CallbackResults :
        /\ dialogOpen
        /\ DialogCommit(Rendered(DialogCur, HandleCancel(DialogCur, c, r1), r2))

DialogClick ==
    \E target \in ClickTargets, c \in CallbackResults, r1 \in CallbackResults,
       r2 \in CallbackResults :
        DialogCommit(Rendered(DialogCur, HandleDialogClick(DialogCur, target, c, r1), r2))

DialogFormSubmit ==
    \E method \in FormMethods, value \in ReturnValues \cup {NoValue},
       r1 \in CallbackResults, r2 \in CallbackResults :
        DialogCommit(Rendered(DialogCur, HandleFormSubmit(DialogCur, method, value, r1), r2))

DialogOpenAnimationFinished ==
    \E r \in CallbackResults :
        /\ openers > 0
        /\ DialogCommit(Rendered(DialogCur, ResumeShowDialog(DialogCur), r))

DialogCloseAnimationFinished ==
    \E r \in CallbackResults :
        /\ closers # <<>>
        /\ DialogCommit(Rendered(DialogCur, ResumeCloseDialog(DialogCur), r))

NextDialog ==
    \/ DialogRender
    \/ DialogShow
    \/ DialogClose
    \/ DialogKeyDown
    \/ DialogNativeCancel
    \/ DialogClick
    \/ DialogFormSubmit
    \/ DialogOpenAnimationFinished
    \/ DialogCloseAnimationFinished

(* ---------------------------- ThemeProvider ---------------------------- *)
(* The ThemeProvider component.  The effects that follow a render (the     *)
(* attributes of the document root, the items of localStorage) are part of *)
(* the step that changes the state.                                        *)

ThemeModes == {"light", "dark", "system"}
ColorSchemes == {"default", "teal", "blue", "green", "orange", "pink"}

\* null: no item in localStorage, no attribute on the element
Null == "<null>"

\* JSON.stringify of a string
JsonStringify(value) == "\"" \o value \o "\""

\* JSON.parse of the text of a string
JsonParse(text) == CHOOSE value \in ThemeModes \cup ColorSchemes : JsonStringify(value) = text

\* what localStorage can hold under the two keys: nothing, or what an earlier
\* ThemeProvider has stored there
StoredItems ==
    [mode : {Null} \cup {JsonStringify(m) : m \in ThemeModes},
     scheme : {Null} \cup {JsonStringify(c) : c \in ColorSchemes}]

GetStoredValue(item, fallback) == IF item # Null THEN JsonParse(item) ELSE fallback

ThemeCur ==
    [mode |-> mode, colorScheme |-> colorScheme, systemPreference |-> systemPreference,
     persist |-> persist, storage |-> storage, dataTheme |-> dataTheme,
     dataScheme |-> dataScheme]

\* window.matchMedia('(prefers-color-scheme: dark)').matches ? 'dark' : 'light'
GetSystemPreference(matches) == IF matches THEN "dark" ELSE "light"

ResolvedMode(s) == IF s.mode = "system" THEN s.systemPreference ELSE s.mode

\* the effect that applies the theme to the document
ApplyTheme(s) ==
    [s EXCEPT !.dataTheme = IF s.mode = "system" THEN Null ELSE s.mode,
              !.dataScheme = IF s.colorScheme = "default" THEN Null ELSE s.colorScheme]

\* the two effects that persist to localStorage
PersistTheme(s) ==
    IF s.persist
    THEN [s EXCEPT !.storage = [mode |-> JsonStringify(s.mode),
                                scheme |-> JsonStringify(s.colorScheme)]]
    ELSE s

ThemeRendered(s) == PersistTheme(ApplyTheme(s))

SetMode(s, newMode) == [s EXCEPT !.mode = newMode]

SetColorScheme(s, scheme) == [s EXCEPT !.colorScheme = scheme]

\* faulty variant: the system preference is not looked at
ToggleMode_Unresolved(s) ==
    [s EXCEPT !.mode = IF @ = "dark" THEN "light" ELSE "dark"]

ToggleMode(s) ==
    [s EXCEPT !.mode = IF @ = "system"
                       THEN (IF s.systemPreference = "dark" THEN "light" ELSE "dark")
                       ELSE (IF @ = "dark" THEN "light" ELSE "dark")]

\* the change listener of the media query
HandleChange(s, matches) == [s EXCEPT !.systemPreference = GetSystemPreference(matches)]

ThemeCommit(s) ==
    /\ mode' = s.mode
    /\ colorScheme' = s.colorScheme
    /\ systemPreference' = s.systemPreference
    /\ storage' = s.storage
    /\ dataTheme' = s.dataTheme
    /\ dataScheme' = s.dataScheme
    /\ UNCHANGED persist
    /\ UNCHANGED <<rippleVars, dialogVars, buttonVars, geometryVars>>

ThemeSetMode == \E newMode \in ThemeModes : ThemeCommit(ThemeRendered(SetMode(ThemeCur, newMode)))

ThemeSetColorScheme ==
    \E scheme \in ColorSchemes : ThemeCommit(ThemeRendered(SetColorScheme(ThemeCur, scheme)))

ThemeToggleMode == ThemeCommit(ThemeRendered(ToggleMode(ThemeCur)))

\* the system preference changes
ThemeSystemChange ==
    \E matches \in BOOLEAN : ThemeCommit(ThemeRendered(HandleChange(ThemeCur, matches)))

NextTheme ==
    \/ ThemeSetMode
    \/ ThemeSetColorScheme
    \/ ThemeToggleMode
    \/ ThemeSystemChange

(* -------------------------------- Button ------------------------------- *)
(* The Button component and its hook that keeps a list of ripples.  The    *)
(* number of calls a step makes to the consumer's onPointerDown is the     *)
(* field called of the step's result.                                      *)

\* ripples in the list at once
MaxRipples == 2

\* element.getBoundingClientRect()
ButtonRect == [left |-> 1, top |-> 1, width |-> 4, height |-> 2]

\* the pointerdown events of the button: where the pointer is
ButtonPointerEvents == [clientX : {1, 3}, clientY : {1, 2}]

\* Date.now() + Math.random(): two calls may give the same number
RippleKeys == {1, 2}

Max(a, b) == IF a > b THEN a ELSE b

ButtonCur ==
    [ripples |-> ripples, disabled |-> buttonDisabled, onPointerDown |-> onPointerDown,
     called |-> 0]

NewRipple(event, key) ==
    [x |-> event.clientX - ButtonRect.left,
     y |-> event.clientY - ButtonRect.top,
     size |-> Max(ButtonRect.width, ButtonRect.height) * 2,
     key |-> key]

\* onPointerDown of the hook
RipplePointerDown(s, event, key) ==
    [s EXCEPT !.ripples = Append(@, NewRipple(event, key))]

\* cleanupRipple
CleanupRipple(s, key) ==
    [s EXCEPT !.ripples = SelectSeq(@, LAMBDA r : r.key # key)]

\* faulty variant: the disabled prop is not looked at
HandlePointerDown_AlwaysRipple(s, event, key) ==
    LET rippled == RipplePointerDown(s, event, key)
    IN  IF s.onPointerDown THEN [rippled EXCEPT !.called = @ + 1] ELSE rippled

HandlePointerDown(s, event, key) ==
    LET rippled == IF ~s.disabled THEN RipplePointerDown(s, event, key) ELSE s
    IN  IF s.onPointerDown THEN [rippled EXCEPT !.called = @ + 1] ELSE rippled

ButtonCommit(s) ==
    /\ Len(s.ripples) <= MaxRipples
    /\ ripples' = s.ripples
    /\ buttonDisabled' = s.disabled
    /\ onPointerDown' = s.onPointerDown
    /\ UNCHANGED <<rippleVars, dialogVars, themeVars, geometryVars>>

ButtonPointerDown ==
    \E event \in ButtonPointerEvents, key \in RippleKeys :
        ButtonCommit(HandlePointerDown(ButtonCur, event, key))

\* the animation of a rendered ripple ends; none is rendered while disabled
ButtonAnimationEnd ==
    \E i \in DOMAIN ripples :
        /\ ~buttonDisabled
        /\ ButtonCommit(CleanupRipple(ButtonCur, ripples[i].key))

\* the parent renders the button with other props
ButtonRender ==
    \E dis \in BOOLEAN, handler \in BOOLEAN :
        ButtonCommit([ButtonCur EXCEPT !.disabled = dis, !.onPointerDown = handler])

NextButton ==
    \/ ButtonPointerDown
    \/ ButtonAnimationEnd
    \/ ButtonRender

(* ------------------------------- geometry ------------------------------ *)
(* The geometry of the press animation.  Lengths are whole numbers of      *)
(* twentieths of a pixel, in which 0.35 times a whole number of pixels and *)
(* half a pixel are exact; the square root is cut to the twentieth below.  *)

PADDING == 10
SOFT_EDGE_MINIMUM_SIZE == 75
\* 0.35 and 0.2 as fractions
SOFT_EDGE_CONTAINER_RATIO == [num |-> 35, den |-> 100]
INITIAL_ORIGIN_SCALE == [num |-> 2, den |-> 10]

\* twentieths of a pixel in a pixel
Twentieths == 20

\* the widths and heights of the surface, in px
Lengths == {0, 3, 30, 40, 100, 300}

\* where the surface is in the viewport, in px
SurfaceLeft == 8
SurfaceTop == 16

\* window.scrollX and window.scrollY, in px
Window == [scrollX |-> 0, scrollY |-> 4]

\* no pointer event is passed (a click without press)
NoPoint == [pageX |-> -1, pageY |-> -1]

\* the page coordinates of the pointer events, in px
PagePoints == [pageX : {8, 58}, pageY : {20, 40}]

\* useRef(''): a string is the sequence of its parts
EmptyString == <<>>

\* the quotient of two numbers as JavaScript gives it: a fraction in lowest
\* terms, Infinity or NaN when the divisor is 0
Divide(a, b) ==
    IF b = 0 THEN (IF a = 0 THEN [num |-> 0, den |-> 0] ELSE [num |-> 1, den |-> 0])
    ELSE [num |-> a \div Gcd(a, b), den |-> b \div Gcd(a, b)]

RECURSIVE SqrtBetween(_, _, _)
SqrtBetween(n, low, high) ==
    IF low = high THEN low
    ELSE LET mid == (low + high + 1) \div 2
         IN  IF mid * mid <= n THEN SqrtBetween(n, mid, high)
             ELSE SqrtBetween(n, low, mid - 1)

\* Math.sqrt, cut to the whole number below
Sqrt(n) == SqrtBetween(n, 0, Min(n, 46340))

\* Math.floor of a number of twentieths, in px
Floor(x) == x \div Twentieths

\* SOFT_EDGE_CONTAINER_RATIO * maxDim, at least SOFT_EDGE_MINIMUM_SIZE
SoftEdgeSize(maxDim) ==
    Max((SOFT_EDGE_CONTAINER_RATIO.num * maxDim) \div SOFT_EDGE_CONTAINER_RATIO.den,
        SOFT_EDGE_MINIMUM_SIZE * Twentieths)

\* faulty variant: the initial size is rounded to the nearest pixel
InitialSize_Rounded(maxDim) ==
    Floor((maxDim * INITIAL_ORIGIN_SCALE.num) \div INITIAL_ORIGIN_SCALE.den
          + Twentieths \div 2)

\* Math.floor(maxDim * INITIAL_ORIGIN_SCALE), in px
InitialSize(maxDim) ==
    Floor((maxDim * INITIAL_ORIGIN_SCALE.num) \div INITIAL_ORIGIN_SCALE.den)

\* Math.sqrt(width ** 2 + height ** 2) + PADDING
MaxRadius(width, height) ==
    Sqrt(width * width + height * height) + PADDING * Twentieths

GeometryCur ==
    [rect |-> rect, initialSizeRef |-> initialSizeRef, rippleSizeRef |-> rippleSizeRef,
     rippleScaleRef |-> rippleScaleRef, transform |-> transform]

DetermineRippleSize(s) ==
    LET height == s.rect.height * Twentieths
        width == s.rect.width * Twentieths
        maxDim == Max(height, width)
        softEdgeSize == SoftEdgeSize(maxDim)
        initialSize == InitialSize(maxDim)
        maxRadius == MaxRadius(width, height)
    IN  [s EXCEPT !.initialSizeRef = initialSize,
                  !.rippleScaleRef = Divide(maxRadius + softEdgeSize,
                                            initialSize * Twentieths),
                  !.rippleSizeRef = <<initialSize, "px">>]

GetNormalizedPointerEventCoords(s, event) ==
    LET documentX == Window.scrollX + s.rect.left
        documentY == Window.scrollY + s.rect.top
    IN  [x |-> (event.pageX - documentX) * Twentieths,
         y |-> (event.pageY - documentY) * Twentieths]

GetTranslationCoordinates(s, event) ==
    LET height == s.rect.height * Twentieths
        width == s.rect.width * Twentieths
        size == s.initialSizeRef * Twentieths
        endPoint == [x |-> (width - size) \div 2, y |-> (height - size) \div 2]
        startPoint == IF event # NoPoint THEN GetNormalizedPointerEventCoords(s, event)
                      ELSE [x |-> width \div 2, y |-> height \div 2]
    IN  [startPoint |-> [x |-> startPoint.x - size \div 2, y |-> startPoint.y - size \div 2],
         endPoint |-> endPoint]

\* what startPressAnimation computes and passes to surface.animate
PressGeometry(s, event) ==
    LET sized == DetermineRippleSize(s)
        points == GetTranslationCoordinates(sized, event)
    IN  [sized EXCEPT !.transform = [translateStart |-> points.startPoint,
                                     translateEnd |-> points.endPoint,
                                     scale |-> sized.rippleScaleRef,
                                     size |-> sized.rippleSizeRef]]

GeometryCommit(s) ==
    /\ rect' = s.rect
    /\ initialSizeRef' = s.initialSizeRef
    /\ rippleSizeRef' = s.rippleSizeRef
    /\ rippleScaleRef' = s.rippleScaleRef
    /\ transform' = s.transform
    /\ UNCHANGED <<rippleVars, dialogVars, themeVars, buttonVars>>

\* the layout gives the surface another size
GeometryResize ==
    \E w \in Lengths, h \in Lengths :
        GeometryCommit([GeometryCur EXCEPT !.rect.width = w, !.rect.height = h])

\* a press starts its animation, with the pointer event of the press or none
GeometryPress ==
    \E event \in PagePoints \cup {NoPoint} :
        GeometryCommit(PressGeometry(GeometryCur, event))

NextGeometry ==
    \/ GeometryResize
    \/ GeometryPress

(* ---------------------------- specifications --------------------------- *)

\* the state of a Dialog after its first render with the given props
DialogMounted(openProp, quickProp, returnValueProp) ==
    /\ open = openProp
    /\ quick = quickProp
    /\ dialogOpen = FALSE
    /\ isOpen = openProp
    /\ isAnimating = FALSE
    /\ returnValueState = returnValueProp
    /\ openers = 0
    /\ closers = <<>>

\* the state of a ThemeProvider after its first render and its effects
ThemeMounted(defaultMode, defaultColorScheme, persistProp, items, matches) ==
    LET first ==
            [mode |-> IF persistProp THEN GetStoredValue(items.mode, defaultMode)
                      ELSE defaultMode,
             colorScheme |-> IF persistProp
                             THEN GetStoredValue(items.scheme, defaultColorScheme)
                             ELSE defaultColorScheme,
             systemPreference |-> GetSystemPreference(matches),
             persist |-> persistProp, storage |-> items,
             dataTheme |-> Null, dataScheme |-> Null]
        s == ThemeRendered(first)
    IN  /\ mode = s.mode
        /\ colorScheme = s.colorScheme
        /\ systemPreference = s.systemPreference
        /\ persist = s.persist
        /\ storage = s.storage
        /\ dataTheme = s.dataTheme
        /\ dataScheme = s.dataScheme

\* the state of a Button after its first render
ButtonMounted(dis, handler) ==
    /\ ripples = <<>>
    /\ buttonDisabled = dis
    /\ onPointerDown = handler

\* the refs of the geometry before the first press, the surface having the
\* given size
GeometryMounted(w, h) ==
    /\ rect = [left |-> SurfaceLeft, top |-> SurfaceTop, width |-> w, height |-> h]
    /\ initialSizeRef = 0
    /\ rippleSizeRef = EmptyString
    /\ rippleScaleRef = EmptyString
    /\ transform = <<>>

\* the components of the page that a specification leaves alone
ButtonIdle == ButtonMounted(FALSE, FALSE)
GeometryIdle == GeometryMounted(100, 40)
DialogIdle == DialogMounted(FALSE, FALSE, "")
ThemeIdle == ThemeMounted("system", "default", TRUE, [mode |-> Null, scheme |-> Null], FALSE)

\* a surface with the hook
Init ==
    /\ \E dis \in BOOLEAN : RippleMounted(dis)
    /\ DialogIdle
    /\ ThemeIdle
    /\ ButtonIdle
    /\ GeometryIdle

Spec == Init /\ [][Next]_vars

\* the state of the hook after its first render, when the consumer has
\* attached surfaceRef to no element
RippleUnattached(dis) ==
    /\ disabled = dis
    /\ surface = FALSE
    /\ hovered = FALSE
    /\ pressed = FALSE
    /\ phase = INACTIVE
    /\ origin = NoEvent
    /\ handle = NoAnim
    /\ anims = <<>>
    /\ waits = EmptyBag
    /\ delays = EmptyBag

\* the hook without a surface
InitNoSurface ==
    /\ \E dis \in BOOLEAN : RippleUnattached(dis)
    /\ DialogIdle
    /\ ThemeIdle
    /\ ButtonIdle
    /\ GeometryIdle

\* without a surface no animation plays, so no release ever waits for one:
\* the handlers, the touch-delay timers and the clock
NextNoSurface ==
    \/ OnPointerEnter
    \/ OnPointerLeave
    \/ OnPointerDown
    \/ OnPointerUp
    \/ OnPointerCancel
    \/ OnClick
    \/ DelayElapsed
    \/ Tick

SpecNoSurface == InitNoSurface /\ [][NextNoSurface]_vars

\* the handlers, the timers and the clock of a hook whose disabled flag
\* changes from render to render
NextRender ==
    \/ OnPointerEnter
    \/ OnPointerLeave
    \/ OnPointerDown
    \/ OnPointerUp
    \/ OnPointerCancel
    \/ OnClick
    \/ DelayElapsed
    \/ WaitElapsed
    \/ Tick
    \/ RippleRender

SpecRender == Init /\ [][NextRender]_vars

\* a dialog
InitDialog ==
    /\ RippleMounted(FALSE)
    /\ \E openProp \in BOOLEAN, quickProp \in BOOLEAN, returnValueProp \in ReturnValues :
          DialogMounted(openProp, quickProp, returnValueProp)
    /\ ThemeIdle
    /\ ButtonIdle
    /\ GeometryIdle

SpecDialog == InitDialog /\ [][NextDialog]_vars

\* a theme provider with the default mode and color scheme
InitTheme ==
    /\ RippleMounted(FALSE)
    /\ DialogIdle
    /\ \E persistProp \in BOOLEAN, items \in StoredItems, matches \in BOOLEAN :
          ThemeMounted("system", "default", persistProp, items, matches)
    /\ ButtonIdle
    /\ GeometryIdle

SpecTheme == InitTheme /\ [][NextTheme]_vars

\* a button
InitButton ==
    /\ RippleMounted(FALSE)
    /\ DialogIdle
    /\ ThemeIdle
    /\ \E dis \in BOOLEAN, handler \in BOOLEAN : ButtonMounted(dis, handler)
    /\ GeometryIdle

SpecButton == InitButton /\ [][NextButton]_vars

\* the geometry of the press animation on a surface of any of the sizes
InitGeometry ==
    /\ RippleMounted(FALSE)
    /\ DialogIdle
    /\ ThemeIdle
    /\ ButtonIdle
    /\ \E w \in Lengths, h \in Lengths : GeometryMounted(w, h)

SpecGeometry == InitGeometry /\ [][NextGeometry]_vars

(* -------------------------------- claims ------------------------------- *)

PointerOps == {"pointerenter", "pointerleave", "pointerdown", "pointerup", "pointercancel"}

AllPointerEvents == UNION {PointerEvents(op) : op \in PointerOps}

\* a release of the animation in the handle is suspended at its await
ReleasePending(s) == \E w \in BagToSet(s.waits) : w.anim = s.handle

\* C1 (minimum visible duration): a press released before its animation has
\* played MINIMUM_PRESS_MS stays pressed while its wait runs; the wait is due
\* exactly when the animation has played MINIMUM_PRESS_MS, and resuming it
\* then sets pressed to false unless a newer animation holds the handle; in no
\* step does pressed turn false before the animation in the handle has played
\* MINIMUM_PRESS_MS.
C1_MinimumVisibleDuration ==
    /\ [](\A w \in BagToSet(waits) :
             w.anim = handle =>
                /\ handle \in DOMAIN anims
                /\ anims[handle].time + w.remaining = MINIMUM_PRESS_MS
                /\ w.remaining > 0 => pressed
                /\ w.remaining = 0 => ~ResumeEndPress(Cur, w).pressed)
    /\ [](pressed /\ PlayState(anims, handle) < MINIMUM_PRESS_MS =>
             LET r == EndPressAnimation(Cur)
             IN  /\ r.pressed
                 /\ CopiesIn([anim |-> handle,
                              remaining |-> MINIMUM_PRESS_MS - anims[handle].time],
                             r.waits) >= 1)
    /\ [][pressed /\ ~pressed' =>
             handle \in DOMAIN anims /\ anims[handle].time >= MINIMUM_PRESS_MS]_vars

\* a press was released after 150 ms of animation and is still shown
C1_Witness ==
    /\ pressed
    /\ phase = INACTIVE
    /\ handle \in DOMAIN anims
    /\ anims[handle].time = 2 * TickMs
    /\ CopiesIn([anim |-> handle, remaining |-> TickMs], waits) = 1

\* C2 (exclusivity of releases): while a press has started its animation and
\* has not been released (phase HOLDING or WAITING_FOR_CLICK), pressed is true
\* and its animation is the one in the handle; resuming the wait of an earlier
\* release, whose animation is no longer in the handle, changes nothing.
C2_ReleaseExclusivity ==
    /\ phase \in {HOLDING, WAITING_FOR_CLICK} =>
          pressed /\ handle \in DOMAIN anims /\ ~ReleasePending(Cur)
    /\ \A w \in BagToSet(waits) :
          w.anim # handle =>
             LET s == [Cur EXCEPT !.waits = @ (-) SetToBag({w})]
             IN  ResumeEndPress(s, w) = s

\* press A was released, press B has started and is held, A's wait is due
C2_Witness ==
    /\ phase = WAITING_FOR_CLICK
    /\ pressed
    /\ \E w \in BagToSet(waits) : w.anim # handle /\ w.remaining = 0

\* C3 (pointer ownership): while an origin event is tracked, every pointer
\* event with another pointerId leaves the whole controller as it is and
\* starts no animation; once no origin event is tracked, the pointerdown of
\* any primary pointer (touch, or primary button held) becomes the origin.
C3_PointerOwnership ==
    [](/\ origin # NoEvent =>
             \A e \in AllPointerEvents :
                e.pointerId # origin.pointerId => HandlerState(Cur, e) = Cur
       /\ origin = NoEvent /\ ~disabled =>
             \A e \in PointerEvents("pointerdown") :
                e.isPrimary /\ (IsTouch(e) \/ e.buttons = 1) =>
                   PointerDownState(Cur, e).origin = e)

\* pointer 1 owns a held press: an event of pointer 2 would otherwise be admitted
C3_Witness ==
    /\ origin # NoEvent
    /\ origin.pointerId = 1
    /\ phase = HOLDING
    /\ pressed
    /\ ~disabled

\* the controller without one of its pending touch-delay timers
WithoutDelay(s, d) == [s EXCEPT !.delays = @ (-) SetToBag({d})]

\* C4 (touch quick tap): a touch pointerdown in INACTIVE leads to TOUCH_DELAY;
\* the pointerup of the same pointer during the delay leads to
\* WAITING_FOR_CLICK and starts exactly one animation, whose origin is the
\* pointerdown event; and when the timer of a press that was tapped in this
\* way is due, resuming it starts no animation and changes no state.
C4_TouchQuickTap ==
    /\ phase = INACTIVE =>
          \A e \in PointerEvents("pointerdown") :
             ShouldReactToEvent(disabled, origin, e) /\ IsTouch(e) =>
                PointerDownState(Cur, e).phase = TOUCH_DELAY
    /\ phase = TOUCH_DELAY =>
          \A u \in PointerEvents("pointerup") :
             ShouldReactToEvent(disabled, origin, u) =>
                LET r == PointerUpState(Cur, u)
                IN  /\ r.phase = WAITING_FOR_CLICK
                    /\ r.started = 1
                    /\ r.anims[r.handle].origin = origin
    /\ \A d \in BagToSet(delays) :
          d.tapped /\ d.remaining = 0 =>
             ResumeTouchDelay(WithoutDelay(Cur, d), d) = WithoutDelay(Cur, d)

\* C5 (synthetic click): a click on an enabled controller in INACTIVE starts
\* exactly one animation, without origin event and alone on the surface, sets
\* pressed, suspends exactly one release that waits MINIMUM_PRESS_MS for it,
\* and leaves the phase INACTIVE and the origin empty; while that release
\* waits the press stays shown, and when it is due it sets pressed to false.
C5_SyntheticClick ==
    /\ ~disabled /\ phase = INACTIVE =>
          LET r == ClickState(Cur)
              w == [anim |-> r.handle, remaining |-> MINIMUM_PRESS_MS]
          IN  /\ r.started = 1
              /\ r.handle # handle
              /\ DOMAIN r.anims = {r.handle}
              /\ r.anims[r.handle] = [origin |-> NoEvent, time |-> 0]
              /\ r.pressed
              /\ r.phase = INACTIVE
              /\ r.origin = NoEvent
              /\ r.waits = waits (+) SetToBag({w})
              /\ CopiesIn(w, r.waits) = 1
              /\ r.delays = delays /\ r.hovered = hovered
    /\ \A w \in BagToSet(waits) :
          w.anim = handle /\ handle \in DOMAIN anims /\ anims[handle].origin = NoEvent =>
             /\ anims[handle].time + w.remaining = MINIMUM_PRESS_MS
             /\ w.remaining > 0 => pressed
             /\ w.remaining = 0 => ~ResumeEndPress(Cur, w).pressed

\* a synthetic click has just been handled
C5_Witness ==
    /\ ~disabled
    /\ phase = INACTIVE
    /\ origin = NoEvent
    /\ pressed
    /\ handle \in DOMAIN anims
    /\ anims[handle] = [origin |-> NoEvent, time |-> 0]
    /\ CopiesIn([anim |-> handle, remaining |-> MINIMUM_PRESS_MS], waits) = 1

\* C6 (disabled short-circuit): a controller that is disabled from
\* construction on is in its initial state after any sequence of handler
\* calls (hovered and pressed false, phase INACTIVE, no animation, no timer),
\* and every handler called with any payload leaves it there.
C6_DisabledShortCircuit ==
    disabled =>
       /\ ~hovered /\ ~pressed
       /\ phase = INACTIVE /\ origin = NoEvent
       /\ handle = NoAnim /\ anims = <<>>
       /\ waits = EmptyBag /\ delays = EmptyBag
       /\ \A e \in AllPointerEvents : HandlerState(Cur, e) = Cur
       /\ ClickState(Cur) = Cur

\* a disabled controller, on which an enabled one would react to a pointerdown
C6_Witness ==
    /\ disabled
    /\ \E e \in PointerEvents("pointerdown") :
          /\ ShouldReactToEvent(FALSE, origin, e)
          /\ PointerDownState(Cur, e) = Cur

\* C7 (hover exclusion for touch): a pointerenter or pointerleave of a touch
\* pointer changes nothing (no hover change, no release); hovered turns true
\* only in a step that handles the pointerenter of a primary non-touch pointer.
C7_TouchNeverHovers ==
    /\ [](\A e \in PointerEvents("pointerenter") \cup PointerEvents("pointerleave") :
             IsTouch(e) => HandlerState(Cur, e) = Cur)
    /\ [][~hovered /\ hovered' =>
             \E e \in PointerEvents("pointerenter") :
                /\ e.isPrimary
                /\ ~IsTouch(e)
                /\ Commit(PointerEnterState(Cur, e))]_vars

\* hovering while a touch pointer owns a press: its pointerleave is ignored
C7_Witness ==
    /\ hovered
    /\ origin # NoEvent
    /\ IsTouch(origin)
    /\ phase = HOLDING

\* a step that handles a pointerdown (touch or not) and ends in phase p
PointerDownTo(touch, p) ==
    \E e \in PointerEvents("pointerdown") :
       /\ IsTouch(e) = touch
       /\ ShouldReactToEvent(disabled, origin, e)
       /\ Commit(PointerDownState(Cur, e))
       /\ phase' = p

\* the phase changes of the transition table that are not made by a pointerdown
TableStep ==
    \/ phase = TOUCH_DELAY /\ phase' = HOLDING /\ DelayElapsed
    \/ phase \in {TOUCH_DELAY, HOLDING} /\ phase' = WAITING_FOR_CLICK /\ OnPointerUp
    \/ phase = WAITING_FOR_CLICK /\ phase' = INACTIVE /\ OnClick
    \/ phase # INACTIVE /\ phase' = INACTIVE /\ (OnPointerLeave \/ OnPointerCancel)

\* C8 as stated: every phase change is one of the transition table, where a
\* pointerdown changes the phase only when the phase is INACTIVE.
C8_OnlyTableTransitions ==
    [][phase' # phase =>
          \/ phase = INACTIVE /\ PointerDownTo(FALSE, WAITING_FOR_CLICK)
          \/ phase = INACTIVE /\ PointerDownTo(TRUE, TOUCH_DELAY)
          \/ TableStep]_vars

\* C8 (amended): every phase change is one of the transition table, where an
\* admitted pointerdown leads to WAITING_FOR_CLICK (non-touch) or TOUCH_DELAY
\* (touch) from whatever phase the controller is in.
C8_TableTransitionsAnyPhaseDown ==
    [][phase' # phase =>
          \/ PointerDownTo(FALSE, WAITING_FOR_CLICK)
          \/ PointerDownTo(TRUE, TOUCH_DELAY)
          \/ TableStep]_vars

\* a touch pointerdown was admitted while a started press had not been released
C8_Witness ==
    /\ phase = TOUCH_DELAY
    /\ pressed
    /\ handle \in DOMAIN anims
    /\ anims[handle].time < MINIMUM_PRESS_MS
    /\ ~ReleasePending(Cur)

\* if the step with result r has started an animation, it is the only one
\* left and the one that was in the handle is cancelled
StartedAlone(r) ==
    r.started > 0 =>
       /\ handle \notin DOMAIN r.anims
       /\ DOMAIN r.anims = {r.handle}
       /\ r.handle # handle

\* C9 (exclusive grow animation): the un-cancelled animations are at most the
\* one in the handle, the animation in the handle is never a cancelled one,
\* and whatever starts an animation cancels the one that was in the handle.
C9_ExclusiveGrowAnimation ==
    [](/\ DOMAIN anims \subseteq {handle}
       /\ handle # NoAnim => handle \in DOMAIN anims
       /\ \A e \in AllPointerEvents : StartedAlone(HandlerState(Cur, e))
       /\ StartedAlone(ClickState(Cur))
       /\ \A d \in BagToSet(delays) :
             d.remaining = 0 => StartedAlone(ResumeTouchDelay(WithoutDelay(Cur, d), d)))

\* a second animation replaced the first
C9_Witness ==
    /\ handle = 2
    /\ DOMAIN anims = {2}
    /\ pressed

\* the pointerdown and pointerup of one press of a primary pointer
Gestures ==
    {g \in PointerEvents("pointerdown") \X PointerEvents("pointerup") :
        /\ g[1].isPrimary /\ g[2].isPrimary
        /\ g[1].pointerId = g[2].pointerId
        /\ g[1].pointerType = g[2].pointerType
        /\ IsTouch(g[1]) \/ g[1].buttons = 1
        /\ g[2].buttons = 0}

\* the controller is at rest, its press shown at most for the rest of the
\* minimum press time
Recovered(s) ==
    /\ s.phase = INACTIVE
    /\ s.origin = NoEvent
    /\ s.pressed => ReleasePending(s)

\* C10 as stated: from every state of an enabled controller, the pointerdown,
\* pointerup and click of any primary pointer leave it recovered.
C10_AnyPointerRecovers ==
    ~disabled =>
       \A g \in Gestures :
          Recovered(ClickState(PointerUpState(PointerDownState(Cur, g[1]), g[2])))

\* C10 (amended): from every state of an enabled controller, the pointerdown,
\* pointerup and click of a primary pointer leave it recovered if the
\* pointerdown is admitted (no other pointer owns the session), whether or
\* not the touch delay of the press elapses before the pointerup; the owning
\* pointer's pointerup always leads to WAITING_FOR_CLICK, where no timer
\* changes the phase and a click recovers; and every release that waits is
\* due when its animation has played MINIMUM_PRESS_MS.
C10_OwnerGestureRecovers ==
    [](~disabled =>
          /\ \A g \in Gestures :
                ShouldReactToEvent(disabled, origin, g[1]) =>
                   LET s1 == PointerDownState(Cur, g[1])
                       own == [event |-> g[1], remaining |-> 0, tapped |-> FALSE]
                       held == ResumeTouchDelay([s1 EXCEPT !.delays = delays], own)
                   IN  /\ s1.origin = g[1]
                       /\ s1.phase \in {TOUCH_DELAY, WAITING_FOR_CLICK}
                       /\ Recovered(ClickState(PointerUpState(s1, g[2])))
                       /\ IsTouch(g[1]) =>
                             Recovered(ClickState(PointerUpState(held, g[2])))
          /\ origin = NoEvent <=> phase = INACTIVE
          /\ origin # NoEvent =>
                /\ ~IsTouch(origin) => phase = WAITING_FOR_CLICK
                /\ \A u \in PointerEvents("pointerup") :
                      /\ u.isPrimary
                      /\ u.pointerId = origin.pointerId
                      /\ u.pointerType = origin.pointerType
                      => PointerUpState(Cur, u).phase = WAITING_FOR_CLICK
          /\ phase = WAITING_FOR_CLICK =>
                /\ Recovered(ClickState(Cur))
                /\ \A d \in BagToSet(delays) :
                      ResumeTouchDelay(WithoutDelay(Cur, d), d).phase = WAITING_FOR_CLICK
          /\ \A w \in BagToSet(waits) :
                w.anim = handle =>
                   /\ anims[handle].time + w.remaining = MINIMUM_PRESS_MS
                   /\ w.remaining = 0 => ~ResumeEndPress(Cur, w).pressed)

\* a press of a pointer was released by its click and is shown for the rest
\* of the minimum press time
C10_Witness ==
    /\ ~disabled
    /\ phase = INACTIVE
    /\ origin = NoEvent
    /\ pressed
    /\ handle \in DOMAIN anims
    /\ anims[handle].origin # NoEvent
    /\ IsTouch(anims[handle].origin)
    /\ ReleasePending(Cur)

(* ---------------------------- claims: Dialog --------------------------- *)

CloseArguments == ReturnValues \cup {NoValue}

\* the dialog as it is, the step having called the given callbacks
DialogHaving(calls) == [DialogCur EXCEPT !.called = calls]

\* C11 (close veto): while the native dialog is open, a close whose onClose
\* returns false only calls onClose: whether it comes from close(), from a
\* form submit, from a cancel or from the open prop turning false, the stored
\* return value, isOpen, isAnimating, the native dialog and the suspended
\* closes are as before, onClosed is not called and no render follows.
C11_CloseVeto ==
    dialogOpen =>
       /\ \A value \in CloseArguments, r \in CallbackResults :
             LET asked == DialogHaving(<<Call("onClose", Coalesce(value, returnValueState))>>)
             IN  /\ CloseDialog(DialogCur, value, "false") = asked
                 /\ Rendered(DialogCur, CloseDialog(DialogCur, value, "false"), r) = asked
                 /\ HandleFormSubmit(DialogCur, "dialog", value, "false") = asked
       /\ \A c \in CallbackResults \ {"false"} :
             HandleCancel(DialogCur, c, "false")
                = DialogHaving(<<Call("onCancel", NoValue), Call("onClose", returnValueState)>>)
       /\ isOpen /\ ~isAnimating =>
             SyncOpenProp([DialogCur EXCEPT !.open = FALSE], "false")
                = [DialogHaving(<<Call("onClose", returnValueState)>>) EXCEPT !.open = FALSE]

\* the open prop is false and the dialog, at rest, is still open
C11_Witness ==
    /\ ~open
    /\ dialogOpen
    /\ isOpen
    /\ ~isAnimating
    /\ openers = 0
    /\ closers = <<>>

\* C12 (cancel veto): a cancel (Escape, the native cancel event or a click on
\* the dialog element itself) whose onCancel returns false only calls
\* onCancel; with any other result it goes on as closeDialog called with the
\* stored return value, which asks onClose with that value when the native
\* dialog is open.
C12_CancelVeto ==
    LET asked == DialogHaving(<<Call("onCancel", NoValue)>>)
    IN  \A r \in CallbackResults :
           /\ HandleCancel(DialogCur, "false", r) = asked
           /\ HandleDialogClick(DialogCur, "dialog", "false", r) = asked
           /\ isOpen => HandleKeyDown(DialogCur, "Escape", "false", r) = asked
           /\ \A c \in CallbackResults \ {"false"} :
                 LET after == HandleCancel(DialogCur, c, r)
                 IN  /\ after = CloseDialog(asked, returnValueState, r)
                     /\ HandleDialogClick(DialogCur, "dialog", c, r) = after
                     /\ isOpen => HandleKeyDown(DialogCur, "Escape", c, r) = after
                     /\ dialogOpen =>
                           /\ Len(after.called) >= 2
                           /\ after.called[2] = Call("onClose", returnValueState)

\* a close with the stored return value "ok" is running its animation
C12_Witness ==
    /\ dialogOpen
    /\ isAnimating
    /\ returnValueState = "ok"
    /\ closers = <<"ok">>

(* ------------------------ claims: ThemeProvider ------------------------ *)

C14_OnePointerDownOneRipple ==
    /\ [](\A event \in ButtonPointerEvents, key \in RippleKeys :
            LET after == HandlePointerDown(ButtonCur, event, key)
            IN  /\ onPointerDown => after.called = 1
                /\ ~buttonDisabled =>
                      /\ Len(after.ripples) = Len(ripples) + 1
                      /\ SubSeq(after.ripples, 1, Len(ripples)) = ripples
                      /\ after.ripples[Len(after.ripples)].key = key
                      /\ after.ripples[Len(after.ripples)].x = event.clientX - ButtonRect.left
                /\ buttonDisabled => after.ripples = ripples)
    /\ [][buttonDisabled => Len(ripples') <= Len(ripples)]_vars

\* a button with a handler has got two ripples and has then been disabled
C14_Witness ==
    /\ buttonDisabled
    /\ onPointerDown
    /\ Len(ripples) = 2

(* ----------------------- claims: ripple controller --------------------- *)

\* the events of the given type that the pointer owning the session sends
OwnerEvents(type) ==
    {e \in PointerEvents(type) :
        /\ e.pointerId = origin.pointerId
        /\ e.pointerType = origin.pointerType
        /\ e.isPrimary}

\* the release sequence has begun: the session is torn down, no animation
\* was started, and pressed is false or a wait for the animation in the
\* handle is suspended
ReleaseBegun(s) ==
    /\ s.phase = INACTIVE
    /\ s.origin = NoEvent
    /\ s.started = 0
    /\ ~s.pressed \/ ReleasePending(s)

\* C15 as stated (leave and cancel): in every active phase, every
\* pointercancel of the owning pointer and every pointerleave of an owning
\* non-touch pointer moves the phase to INACTIVE, clears the origin event and
\* begins the release sequence in the same step.
C15_OwnerLeaveCancel ==
    phase # INACTIVE =>
       /\ \A e \in OwnerEvents("pointercancel") : ReleaseBegun(PointerCancelState(Cur, e))
       /\ \A e \in OwnerEvents("pointerleave") :
             ~IsTouch(e) => ReleaseBegun(PointerLeaveState(Cur, e))

\* C15 as amended: in every active phase, a pointercancel of the owning
\* pointer that is a touch or reports the primary button held, and every
\* pointerleave of an owning non-touch pointer, moves the phase to INACTIVE,
\* clears the origin event and begins the release sequence in the same step
\* (the leave also ends the hover); a pointercancel of an owning non-touch
\* pointer that reports no primary button held changes nothing.
C15_AdmittedLeaveCancel ==
    [](phase # INACTIVE =>
          /\ \A e \in OwnerEvents("pointercancel") :
                IF IsTouch(e) \/ e.buttons = 1
                THEN /\ ReleaseBegun(PointerCancelState(Cur, e))
                     /\ PointerCancelState(Cur, e) = EndPressAnimation(Cur)
                ELSE PointerCancelState(Cur, e) = Cur
          /\ \A e \in OwnerEvents("pointerleave") :
                ~IsTouch(e) =>
                   /\ ReleaseBegun(PointerLeaveState(Cur, e))
                   /\ ~PointerLeaveState(Cur, e).hovered
                   /\ PointerLeaveState(Cur, e) = EndPressAnimation([Cur EXCEPT !.hovered = FALSE]))

\* a hovered mouse press has started; its pointer can leave or be cancelled
C15_Witness ==
    /\ phase = WAITING_FOR_CLICK
    /\ origin.pointerType = "mouse"
    /\ hovered
    /\ pressed
    /\ PlayState(anims, handle) = TickMs

\* the touch pointerdown events that an enabled controller at rest admits
TouchDowns == {e \in PointerEvents("pointerdown") : IsTouch(e) /\ e.isPrimary}

\* the timer that the pointerdown with the given event suspends, when due
DueDelay(event) == [event |-> event, remaining |-> 0, tapped |-> FALSE]

\* the controller two ticks (150 ms) after an admitted touch pointerdown whose
\* press was cancelled at once; with again, the same pointer has gone down a
\* second time one tick after the first
CancelledPress(s, event, again) ==
    LET cancelled == PointerCancelState(PointerDownState(s, event),
                                        [event EXCEPT !.type = "pointercancel"])
        later == TickState(cancelled)
    IN  TickState(IF again THEN PointerDownState(later, event) ELSE later)

\* C16 (touch hold): when the timer of a touch pointerdown is due and the
\* phase is TOUCH_DELAY, resuming it sets the phase to HOLDING and starts one
\* animation from the pointerdown's event; when the phase is not TOUCH_DELAY
\* it changes nothing; and when the press of the timer was released (its
\* pointerup came during the delay) or cancelled before the timer is due, it
\* changes nothing, whatever has happened since.
C16_TouchHold ==
    /\ \A d \in BagToSet(delays) :
          d.remaining = 0 =>
             LET before == WithoutDelay(Cur, d)
                 after == ResumeTouchDelay(before, d)
             IN  /\ phase = TOUCH_DELAY /\ ~d.tapped =>
                       /\ after.phase = HOLDING
                       /\ after.started = 1
                       /\ after.pressed
                       /\ after.anims[after.handle].origin = d.event
                 /\ phase # TOUCH_DELAY => after = before
                 /\ d.tapped => after = before
    /\ ~disabled /\ phase = INACTIVE /\ waits = EmptyBag /\ delays = EmptyBag =>
          \A e \in TouchDowns, again \in BOOLEAN :
             LET s == CancelledPress(Cur, e, again)
                 before == WithoutDelay(s, DueDelay(e))
             IN  /\ CopiesIn(DueDelay(e), s.delays) = 1
                 /\ ResumeTouchDelay(before, DueDelay(e)) = before

\* C17 (a touch-delay timer acts on its own press only): when the timer of
\* a press that was tapped is due while a later pointerdown's timer still has
\* time left, the press in TOUCH_DELAY went down less than TOUCH_DELAY_MS
\* ago, and resuming the due timer neither changes the phase nor starts an
\* animation.
C17_DelayActsOnOwnPress ==
    \A d \in BagToSet(delays) :
       /\ d.remaining = 0
       /\ d.tapped
       /\ \E o \in BagToSet(delays) : o.remaining > 0 /\ ~o.tapped
       => LET after == ResumeTouchDelay(WithoutDelay(Cur, d), d)
          IN  /\ after.phase = phase
              /\ after.started = 0
              /\ after.pressed = pressed
              /\ after.handle = handle

\* the session of the controller torn down, everything else as it is
TornDown(s) == [s EXCEPT !.origin = NoEvent, !.phase = INACTIVE]

\* C18 (release sequence): endPressAnimation clears the origin event and sets
\* the phase to INACTIVE; when the animation in the handle has played
\* MINIMUM_PRESS_MS or more, or there is no animation to ask, it sets pressed
\* to false at once and suspends no wait; otherwise it leaves pressed as it is
\* and suspends one wait of MINIMUM_PRESS_MS minus the time played, and
\* resuming that wait sets pressed to false if the handle still holds the
\* same animation and changes nothing if it does not.
C18_ReleaseSequence ==
    LET released == EndPressAnimation(Cur)
    IN  /\ released.phase = INACTIVE
        /\ released.origin = NoEvent
        /\ handle \notin DOMAIN anims =>
              released = [TornDown(Cur) EXCEPT !.pressed = FALSE]
        /\ handle \in DOMAIN anims /\ anims[handle].time >= MINIMUM_PRESS_MS =>
              released = [TornDown(Cur) EXCEPT !.pressed = FALSE]
        /\ handle \in DOMAIN anims /\ anims[handle].time < MINIMUM_PRESS_MS =>
              released = [TornDown(Cur) EXCEPT
                             !.waits = @ (+) SetToBag({[anim |-> handle,
                                                        remaining |-> MINIMUM_PRESS_MS
                                                                      - anims[handle].time]})]
        /\ \A w \in BagToSet(waits) :
              LET before == [Cur EXCEPT !.waits = @ (-) SetToBag({w})]
              IN  ResumeEndPress(before, w)
                     = IF w.anim = handle THEN [before EXCEPT !.pressed = FALSE] ELSE before

\* a press was released when its animation had played MINIMUM_PRESS_MS:
\* nothing waits and pressed is false
C18_Witness ==
    /\ phase = INACTIVE
    /\ ~pressed
    /\ waits = EmptyBag
    /\ handle \in DOMAIN anims
    /\ anims[handle].time = MINIMUM_PRESS_MS
    /\ anims[handle].origin # NoEvent

\* C19 as stated (teardown timing): the session is torn down when the
\* minimum-press timer resolves: every step that takes the phase from an
\* active phase to INACTIVE is the resumption of a due minimum-press wait.
C19_TeardownWhenTimerResolves ==
    [][phase # INACTIVE /\ phase' = INACTIVE =>
          \E w \in BagToSet(waits) :
             w.remaining = 0 /\ waits' = waits (-) SetToBag({w})]_vars

\* C19 as amended: the session is torn down in the step that begins the
\* release, before any wait: a click in WAITING_FOR_CLICK or in INACTIVE and
\* an admitted pointercancel leave the phase INACTIVE and the origin event
\* cleared in the same step, with the minimum-press wait still to run when
\* the animation has played less than MINIMUM_PRESS_MS; a pointerup in
\* TOUCH_DELAY or HOLDING tears nothing down (WAITING_FOR_CLICK, origin
\* kept); and resuming a minimum-press wait changes neither the phase nor the
\* origin event.
C19_TeardownAtRelease ==
    /\ ~disabled /\ phase \in {INACTIVE, WAITING_FOR_CLICK} =>
          LET clicked == ClickState(Cur)
          IN  /\ clicked.phase = INACTIVE
              /\ clicked.origin = NoEvent
              /\ PlayState(clicked.anims, clicked.handle) < MINIMUM_PRESS_MS =>
                    /\ clicked.pressed
                    /\ \E w \in BagToSet(clicked.waits) :
                          w.anim = clicked.handle /\ w.remaining > 0
    /\ phase # INACTIVE =>
          \A e \in OwnerEvents("pointercancel") :
             IsTouch(e) \/ e.buttons = 1 =>
                LET cancelled == PointerCancelState(Cur, e)
                IN  /\ cancelled.phase = INACTIVE
                    /\ cancelled.origin = NoEvent
                    /\ PlayState(anims, handle) < MINIMUM_PRESS_MS =>
                          \E w \in BagToSet(cancelled.waits) :
                             w.anim = handle /\ w.remaining > 0
    /\ phase \in {TOUCH_DELAY, HOLDING} =>
          \A e \in OwnerEvents("pointerup") :
             /\ PointerUpState(Cur, e).phase = WAITING_FOR_CLICK
             /\ PointerUpState(Cur, e).origin = origin
    /\ \A w \in BagToSet(waits) :
          LET resumed == ResumeEndPress([Cur EXCEPT !.waits = @ (-) SetToBag({w})], w)
          IN  resumed.phase = phase /\ resumed.origin = origin

\* a click without press came one tick ago: the session is torn down and the
\* minimum-press wait of its release is still running
C19_Witness ==
    /\ phase = INACTIVE
    /\ origin = NoEvent
    /\ pressed
    /\ handle \in DOMAIN anims
    /\ anims[handle].origin = NoEvent
    /\ anims[handle].time = TickMs
    /\ CopiesIn([anim |-> handle, remaining |-> MINIMUM_PRESS_MS - TickMs], waits) = 1

\* C20 (non-touch press): in phase INACTIVE on an enabled controller, the
\* pointerdown of a primary non-touch pointer with the primary button held
\* records the event as origin, sets the phase to WAITING_FOR_CLICK, suspends
\* no timer and, in the same step, starts one animation from the event and
\* sets pressed; nothing else changes.
C20_NonTouchPress ==
    ~disabled /\ phase = INACTIVE =>
       \A e \in PointerEvents("pointerdown") :
          e.pointerType # "touch" /\ e.isPrimary /\ e.buttons = 1 =>
             LET after == PointerDownState(Cur, e)
             IN  /\ after.origin = e
                 /\ after.phase = WAITING_FOR_CLICK
                 /\ after.delays = delays
                 /\ after.waits = waits
                 /\ after.started = 1
                 /\ after.pressed
                 /\ after.handle \in DOMAIN after.anims
                 /\ after.handle # handle
                 /\ after.anims[after.handle] = [origin |-> e, time |-> 0]
                 /\ after.hovered = hovered

\* a mouse press has just started, and no timer is pending
C20_Witness ==
    /\ phase = WAITING_FOR_CLICK
    /\ origin.pointerType = "mouse"
    /\ pressed
    /\ handle \in DOMAIN anims
    /\ anims[handle] = [origin |-> origin, time |-> 0]
    /\ delays = EmptyBag
    /\ waits = EmptyBag

\* C21 (pointerup): in phase HOLDING, the pointerup of the owning pointer sets
\* the phase to WAITING_FOR_CLICK and changes nothing else: it starts no
\* animation, cancels none, and leaves the origin event, hovered, pressed and
\* the timers as they are; in phase INACTIVE or WAITING_FOR_CLICK every
\* pointerup changes nothing at all; and no step that handles a pointerup in
\* HOLDING changes anything but the phase.
C21_PointerUpInHolding ==
    /\ [](phase = HOLDING =>
             /\ origin # NoEvent
             /\ \A e \in OwnerEvents("pointerup") :
                   LET after == PointerUpState(Cur, e)
                   IN  /\ after = [Cur EXCEPT !.phase = WAITING_FOR_CLICK]
                       /\ after.started = 0
                       /\ after.handle = handle /\ after.anims = anims
                       /\ after.origin = origin
                       /\ after.hovered = hovered /\ after.pressed = pressed)
    /\ [](phase \in {INACTIVE, WAITING_FOR_CLICK} =>
             \A e \in PointerEvents("pointerup") : PointerUpState(Cur, e) = Cur)
    /\ [][phase = HOLDING /\ OnPointerUp =>
             /\ phase' \in {HOLDING, WAITING_FOR_CLICK}
             /\ UNCHANGED <<origin, hovered, pressed, handle, anims, waits, delays>>]_vars

\* a touch press is held, 75 ms after its delay has elapsed: its pointerup
\* can come
C21_Witness ==
    /\ phase = HOLDING
    /\ pressed
    /\ IsTouch(origin)
    /\ handle \in DOMAIN anims
    /\ anims[handle].origin = origin
    /\ anims[handle].time = TickMs

\* the pointerdown, pointerup and pointercancel events
PressEvents ==
    PointerEvents("pointerdown") \cup PointerEvents("pointerup")
       \cup PointerEvents("pointercancel")

\* the test of the claim: enabled, primary pointer, no other pointer owns the
\* session, and a touch or the primary button held
Admissible(e) ==
    /\ ~disabled
    /\ e.isPrimary
    /\ origin = NoEvent \/ origin.pointerId = e.pointerId
    /\ e.pointerType = "touch" \/ e.buttons = 1

\* C22 (admissibility of press events): a pointerdown, pointerup or
\* pointercancel is reacted to exactly if the controller is enabled, the
\* pointer is primary, no other pointer owns the session and the pointer is
\* a touch or has the primary button held; every press event that fails the
\* test leaves the whole controller as it is (phase, origin event, hovered,
\* pressed, animation handle, timers); an admitted pointerdown becomes the
\* origin event and an admitted pointercancel begins the release.
C22_PressAdmissibility ==
    [](\A e \in PressEvents :
          /\ ShouldReactToEvent(disabled, origin, e) <=> Admissible(e)
          /\ ~Admissible(e) =>
                LET after == HandlerState(Cur, e)
                IN  /\ after = Cur
                    /\ after.phase = phase /\ after.origin = origin
                    /\ after.hovered = hovered /\ after.pressed = pressed
                    /\ after.handle = handle
          /\ Admissible(e) /\ e.type = "pointerdown" => PointerDownState(Cur, e).origin = e
          /\ Admissible(e) /\ e.type = "pointercancel" =>
                PointerCancelState(Cur, e) = EndPressAnimation(Cur))

\* the mouse pointer 2 owns a started press: the events of pointer 1, and its
\* own events without the primary button, fail the test
C22_Witness ==
    /\ ~disabled
    /\ phase = WAITING_FOR_CLICK
    /\ origin.pointerId = 2
    /\ origin.pointerType = "mouse"
    /\ pressed
    /\ hovered

\* the controller as it would be with a surface element attached
Attached(s) == [s EXCEPT !.surface = TRUE]

\* the handler has advanced the phase machine as it does with a surface, has
\* created no animation and has left the handle and pressed as they were
SilentlySkipped(after, with) ==
    /\ after.started = 0
    /\ after.anims = anims
    /\ after.handle = handle
    /\ after.pressed = pressed
    /\ after.waits = waits
    /\ after.phase = with.phase
    /\ after.origin = with.origin
    /\ after.hovered = with.hovered
    /\ after.delays = with.delays

\* C23 (missing surface): while no surface element is attached, no animation
\* exists, the handle is empty, pressed is false and no release waits; every
\* handler and every due touch-delay timer creates no animation and leaves
\* the handle and pressed unchanged, while phase, origin event, hovered and
\* timers become what they become with a surface: an admitted pointerdown
\* leads to WAITING_FOR_CLICK (TOUCH_DELAY for a touch), a pointerup in
\* TOUCH_DELAY and a due timer in TOUCH_DELAY advance the phase, and a click
\* in WAITING_FOR_CLICK or INACTIVE leads to INACTIVE.
C23_MissingSurface ==
    ~surface =>
       /\ ~pressed /\ handle = NoAnim /\ anims = <<>> /\ waits = EmptyBag
       /\ \A e \in AllPointerEvents :
             SilentlySkipped(HandlerState(Cur, e), HandlerState(Attached(Cur), e))
       /\ SilentlySkipped(ClickState(Cur), ClickState(Attached(Cur)))
       /\ \A d \in BagToSet(delays) :
             d.remaining = 0 =>
                SilentlySkipped(ResumeTouchDelay(WithoutDelay(Cur, d), d),
                                ResumeTouchDelay(WithoutDelay(Attached(Cur), d), d))
       /\ \A e \in PointerEvents("pointerdown") :
             ShouldReactToEvent(disabled, origin, e) =>
                PointerDownState(Cur, e).phase
                   = IF IsTouch(e) THEN TOUCH_DELAY ELSE WAITING_FOR_CLICK
       /\ phase = TOUCH_DELAY =>
             \A e \in OwnerEvents("pointerup") :
                PointerUpState(Cur, e).phase = WAITING_FOR_CLICK
       /\ ~disabled /\ phase \in {INACTIVE, WAITING_FOR_CLICK} =>
             ClickState(Cur).phase = INACTIVE

\* without a surface, the pointerdown of a mouse has been admitted: the phase
\* has advanced and nothing is shown
C23_Witness ==
    /\ ~surface
    /\ phase = WAITING_FOR_CLICK
    /\ origin.pointerType = "mouse"
    /\ ~pressed
    /\ handle = NoAnim

\* C24 (disabled never presses): in no step taken while the controller is
\* disabled does pressed turn from false to true, and no such step starts an
\* animation, whenever the disabled flag was turned on.
C24_DisabledNeverPresses ==
    [][disabled =>
          /\ ~(~pressed /\ pressed')
          /\ handle' = handle
          /\ DOMAIN anims' \subseteq DOMAIN anims]_vars

\* C25 (hover tracks the non-touch pointer): on an enabled controller, every
\* pointerleave of a primary non-touch pointer leaves hovered false,
\* whichever pointer owns the press session.
C25_LeaveEndsHover ==
    ~disabled =>
       \A e \in PointerEvents("pointerleave") :
          e.isPrimary /\ ~IsTouch(e) => ~PointerLeaveState(Cur, e).hovered

\* C26 (origin event and phase): in every reachable state an origin event is
\* tracked exactly when the phase is not INACTIVE: in TOUCH_DELAY, HOLDING and
\* WAITING_FOR_CLICK the origin event is the pointerdown of a primary pointer,
\* in INACTIVE it is empty; HOLDING and TOUCH_DELAY belong to a touch.
C26_OriginIffActive ==
    [](/\ origin = NoEvent <=> phase = INACTIVE
       /\ phase \in {TOUCH_DELAY, HOLDING, WAITING_FOR_CLICK} =>
             /\ origin \in PointerEvents("pointerdown")
             /\ origin.isPrimary
       /\ phase \in {TOUCH_DELAY, HOLDING} => IsTouch(origin)
       /\ phase = INACTIVE => origin = NoEvent)

\* a touch press has ended during its delay and its timer is due: the phase
\* is INACTIVE with no origin event, before and after the timer resumes
C26_Witness ==
    /\ phase = INACTIVE
    /\ origin = NoEvent
    /\ ~pressed
    /\ \E d \in BagToSet(delays) : d.remaining = 0 /\ ~d.tapped

(* ------------------------- claims: Dialog callbacks -------------------- *)

\* how often a step has called the given callback
Calls(s, name) == Len(SelectSeq(s.called, LAMBDA c : c.callback = name))

\* C27 (close is single-shot): at most one close is running its animation;
\* while it runs, the native dialog is still open, so that its end is the one
\* transition from open to closed, and a further close request (close(), form
\* submit, cancel by Escape or backdrop click) calls neither onClose nor
\* onClosed and suspends no second close.
C27_CloseSingleShot ==
    /\ Len(closers) <= 1
    /\ closers # <<>> => dialogOpen
    /\ closers # <<>> =>
          \A value \in CloseArguments, c \in CallbackResults, r \in CallbackResults :
             /\ Calls(CloseDialog(DialogCur, value, r), "onClose") = 0
             /\ Calls(HandleFormSubmit(DialogCur, "dialog", value, r), "onClose") = 0
             /\ Calls(HandleCancel(DialogCur, c, r), "onClose") = 0
             /\ Calls(HandleKeyDown(DialogCur, "Escape", c, r), "onClose") = 0
             /\ CloseDialog(DialogCur, value, r).closers = closers

\* the value a close request with the given argument closes with
CloseValue(value) == Coalesce(value, returnValueState)

\* C28 (callback ordering): showDialog on a closed dialog calls onOpen and
\* then shows the native dialog, and calls onOpened only when the open
\* animations have finished (at once if there are none); closeDialog on an
\* open dialog calls onClose before the close animations start, and when they
\* have finished closes the native dialog and then calls onClosed with the
\* value that was passed to onClose; show() on an open dialog and close() on
\* a closed dialog call nothing and change nothing.
C28_CallbackOrder ==
    /\ ~dialogOpen =>
          LET shown == ShowDialog(DialogCur)
          IN  /\ quick => shown.called = <<Call("onOpen", NoValue), Call("showModal", NoValue),
                                          Call("onOpened", NoValue)>>
              /\ ~quick => /\ shown.called = <<Call("onOpen", NoValue),
                                              Call("showModal", NoValue),
                                              Call("animate", NoValue)>>
                           /\ shown.openers = openers + 1
              /\ shown.dialogOpen
    /\ openers > 0 =>
          ResumeShowDialog(DialogCur).called = <<Call("onOpened", NoValue)>>
    /\ dialogOpen =>
          \A value \in CloseArguments, r \in CallbackResults \ {"false"} :
             LET closing == CloseDialog(DialogCur, value, r)
                 v == CloseValue(value)
             IN  /\ quick => /\ closing.called = <<Call("onClose", v), Call("close", v),
                                                  Call("onClosed", v)>>
                             /\ ~closing.dialogOpen
                 /\ ~quick => /\ closing.called = <<Call("onClose", v), Call("animate", NoValue)>>
                              /\ closing.closers = Append(closers, v)
                              /\ closing.dialogOpen
    /\ closers # <<>> =>
          LET closed == ResumeCloseDialog(DialogCur)
          IN  /\ closed.called = <<Call("close", Head(closers)), Call("onClosed", Head(closers))>>
              /\ ~closed.dialogOpen
    /\ dialogOpen => ShowDialog(DialogCur) = DialogCur
    /\ ~dialogOpen =>
          \A value \in CloseArguments, r \in CallbackResults :
             CloseDialog(DialogCur, value, r) = DialogCur

\* a dialog is shown and its open animations are running: onOpen has been
\* called, onOpened has not
C28_Witness ==
    /\ ~quick
    /\ dialogOpen
    /\ isOpen
    /\ isAnimating
    /\ openers = 1
    /\ closers = <<>>

(* --------------------------- claims: geometry -------------------------- *)

\* the whole number d with d <= x / parts < d + 1
WholeParts(x, parts) == CHOOSE d \in 0..x : parts * d <= x /\ x < parts * (d + 1)

\* C29 (geometry determinism): for a surface of width W and height H, the
\* press computes, from W and H alone and whatever the refs hold from earlier
\* presses, initialDiameter = floor(0.2 * max(W, H)), softEdge = max(0.35 *
\* max(W, H), 75), maxRadius = sqrt(W^2 + H^2) + 10 (the root cut to the
\* twentieth of a pixel below) and targetScale = (maxRadius + softEdge) /
\* initialDiameter, and the end translation ((W - initialDiameter) / 2,
\* (H - initialDiameter) / 2); W = 100, H = 40 gives initialDiameter 20,
\* softEdge 75 and the end translation (40, 10).  Lengths are in twentieths
\* of a pixel.
C29_GeometryDeterminism ==
    LET W == rect.width
        H == rect.height
        maxDimension == IF W > H THEN W ELSE H
        initialDiameter == WholeParts(maxDimension, 5)
        softEdge == IF 7 * maxDimension > 75 * 20 THEN 7 * maxDimension ELSE 75 * 20
        root == CHOOSE r \in 0..(20 * (W + H)) :
                   r * r <= 400 * (W * W + H * H) /\ 400 * (W * W + H * H) < (r + 1) * (r + 1)
        maxRadius == root + 10 * 20
        sized == DetermineRippleSize(GeometryCur)
    IN  /\ sized.initialSizeRef = initialDiameter
        /\ sized.rippleSizeRef = <<initialDiameter, "px">>
        /\ SoftEdgeSize(20 * maxDimension) = softEdge
        /\ MaxRadius(20 * W, 20 * H) = maxRadius
        /\ initialDiameter > 0 =>
              /\ sized.rippleScaleRef.num * 20 * initialDiameter
                    = (maxRadius + softEdge) * sized.rippleScaleRef.den
              /\ sized.rippleScaleRef.den > 0
        /\ initialDiameter = 0 => sized.rippleScaleRef = [num |-> 1, den |-> 0]
        /\ sized = DetermineRippleSize([GeometryCur EXCEPT !.initialSizeRef = 0,
                                                           !.rippleSizeRef = EmptyString,
                                                           !.rippleScaleRef = EmptyString])
        /\ \A event \in PagePoints \cup {NoPoint} :
              LET pressing == PressGeometry(GeometryCur, event)
              IN  /\ pressing.transform.translateEnd
                        = [x |-> 10 * (W - initialDiameter), y |-> 10 * (H - initialDiameter)]
                  /\ pressing.transform.scale = sized.rippleScaleRef
                  /\ pressing.initialSizeRef = initialDiameter
        /\ W = 100 /\ H = 40 =>
              /\ sized.initialSizeRef = 20
              /\ SoftEdgeSize(20 * maxDimension) = 75 * 20
              /\ PressGeometry(GeometryCur, NoPoint).transform.translateEnd
                    = [x |-> 40 * 20, y |-> 10 * 20]
        /\ W = 40 /\ H = 30 =>
              /\ MaxRadius(20 * W, 20 * H) = 60 * 20
              /\ sized.rippleScaleRef = [num |-> 135, den |-> 8]

\* a press has started on a surface of 100 by 40 px: the initial size is
\* 20 px and the end translation (40 px, 10 px)
C29_Witness ==
    /\ rect.width = 100
    /\ rect.height = 40
    /\ initialSizeRef = 20
    /\ rippleSizeRef = <<20, "px">>
    /\ transform # <<>>
    /\ transform.translateEnd = [x |-> 800, y |-> 200]
    /\ transform.scale = rippleScaleRef

====
